---- MODULE Spec2Model ----
(***************************************************************************)
(* Model of the hybrid search and indexing subsystem of mcp-apple-notes    *)
(* (src/index.ts): searchAndCombineResults (reciprocal rank fusion of a    *)
(* vector channel and a full-text channel) and indexNotes (clear, fetch,   *)
(* normalize, add).                                                        *)
(*                                                                         *)
(* Strings are sequences of one-character strings, so that building the    *)
(* fusion key title + "::" + content and splitting it again are computed   *)
(* as the code computes them.  Scores are the exact rationals 1/(k+rank),  *)
(* held as integers scaled by ScoreScale, the least common multiple of     *)
(* the denominators that can occur.                                        *)
(***************************************************************************)
EXTENDS Integers, Sequences, FiniteSets, TLC

(* ------------------------------ bounds -------------------------------- *)

\* explicit limits passed to searchAndCombineResults run over 1..MaxLimit
MaxLimit == 3

\* the table never holds more than MaxRows rows (degraded append is capped)
MaxRows == 3

(* ------------------------- program constants -------------------------- *)

\* const k = 60
k == 60

\* limit = 20, the default parameter value
DefaultLimit == 20

(* ------------------------------ strings ------------------------------- *)

\* the separator written between title and content in the fusion key
Sep == <<":", ":">>

\* `${result.title}::${result.content}`
Key(row) == row.title \o Sep \o row.content

\* index of the first occurrence of "::" in s at or after position i, 0 if none
RECURSIVE IndexOfSep(_, _)
IndexOfSep(s, i) ==
  IF i + 1 > Len(s) THEN 0
  ELSE IF s[i] = ":" /\ s[i + 1] = ":" THEN i
  ELSE IndexOfSep(s, i + 1)

\* String.prototype.split("::"): the pieces between non-overlapping
\* occurrences of the separator, scanned left to right
RECURSIVE Split(_)
Split(s) ==
  LET i == IndexOfSep(s, 1)
  IN IF i = 0 THEN <<s>>
     ELSE <<SubSeq(s, 1, i - 1)>> \o Split(SubSeq(s, i + 2, Len(s)))

\* const [title, content] = key.split("::"); return { title, content }
\* (a key always holds at least one separator, so two pieces exist)
SplitKey(key) ==
  LET parts == Split(key)
  IN [title |-> parts[1], content |-> parts[2]]

(* ------------------------------ scores -------------------------------- *)

RECURSIVE Gcd(_, _)
Gcd(a, b) == IF b = 0 THEN a ELSE Gcd(b, a % b)

RECURSIVE LcmUpTo(_)
LcmUpTo(r) ==
  IF r = 0 THEN k
  ELSE LET m == LcmUpTo(r - 1) IN (m * (k + r)) \div Gcd(m, k + r)

\* the least common multiple of k .. k + MaxRows: a channel never returns
\* more rows than the table holds, so ScoreScale / (k + rank) is an exact
\* integer for every rank that occurs
ScoreScale == LcmUpTo(MaxRows)

\* rank off by one: the textbook RRF formula counts ranks from 1
ScoreFromOne(startRank, idx) == ScoreScale \div (k + startRank + idx + 1)

\* const score = 1 / (k + startRank + idx)
Score(startRank, idx) == ScoreScale \div (k + startRank + idx)

\* position of key in the score map, 0 if absent (Map.get)
RECURSIVE MapIndex(_, _, _)
MapIndex(map, key, i) ==
  IF i > Len(map) THEN 0
  ELSE IF map[i].key = key THEN i
  ELSE MapIndex(map, key, i + 1)

\* scores.set(key, (scores.get(key) || 0) + score): a present key keeps its
\* place in the map's insertion order, a new key goes to the end
MapAdd(map, key, score) ==
  LET i == MapIndex(map, key, 1)
  IN IF i = 0 THEN Append(map, [key |-> key, score |-> score])
     ELSE [map EXCEPT ![i].score = @ + score]

\* results.forEach((result, idx) => ...) from position idx (1-based) on
RECURSIVE ProcessFrom(_, _, _, _)
ProcessFrom(map, results, startRank, i) ==
  IF i > Len(results) THEN map
  ELSE ProcessFrom(MapAdd(map, Key(results[i]), Score(startRank, i - 1)),
                   results, startRank, i + 1)

\* processResults(results, startRank)
processResults(map, results, startRank) == ProcessFrom(map, results, startRank, 1)

(* ------------------------------- sort --------------------------------- *)

\* a comparator that also moves an entry before one of equal score
BeforeOrEqual(x, y) == x.score >= y.score

\* .sort(([, a], [, b]) => b - a): x goes before y when b - a < 0
Before(x, y) == x.score > y.score

\* insert e into the sorted sequence s behind every element that does not
\* have to come after it (Array.prototype.sort is stable)
RECURSIVE InsertSorted(_, _)
InsertSorted(s, e) ==
  IF s = <<>> THEN <<e>>
  ELSE IF Before(e, Head(s)) THEN <<e>> \o s
  ELSE <<Head(s)>> \o InsertSorted(Tail(s), e)

RECURSIVE SortFrom(_, _, _)
SortFrom(sorted, entries, i) ==
  IF i > Len(entries) THEN sorted
  ELSE SortFrom(InsertSorted(sorted, entries[i]), entries, i + 1)

\* Array.from(scores.entries()).sort(...)
SortEntries(entries) == SortFrom(<<>>, entries, 1)

Min(a, b) == IF a < b THEN a ELSE b

\* the slice left out
NoSlice(s, lim) == s

\* .slice(0, limit)
Slice(s, lim) == SubSeq(s, 1, Min(lim, Len(s)))

(* --------------------------- sample data ------------------------------ *)

Str(c) == <<c>>

\* an index row; creation_date, modification_date and vector are carried by
\* the table but read by nothing modelled here and are left out
Row(id, title, content) == [id |-> id, title |-> title, content |-> content]

\* (index + 1).toString(): the ids are counted from 1
IdFromOne(n) == <<"1", "2", "3", "4", "5", "6", "7", "8", "9", "10">>[n + 1]

\* the decimal string of a row position (index.toString())
IdOf(n) == <<"0", "1", "2", "3", "4", "5", "6", "7", "8", "9">>[n + 1]

\* three rows with pairwise different titles and contents
TableABC ==
  << Row(IdOf(0), Str("a"), Str("x")),
     Row(IdOf(1), Str("b"), Str("y")),
     Row(IdOf(2), Str("c"), Str("z")) >>

\* two rows that agree in title and content, and a third row
TableDup ==
  << Row(IdOf(0), Str("a"), Str("x")),
     Row(IdOf(1), Str("a"), Str("x")),
     Row(IdOf(2), Str("b"), Str("y")) >>

\* rows whose contents or titles hold the separator
TableSep ==
  << Row(IdOf(0), Str("a"), Str("b")),
     Row(IdOf(1), Str("a"), <<"b", ":", ":", "c">>),
     Row(IdOf(2), <<"a", ":", ":", "b">>, Str("c")) >>

\* the tables a search-only run starts from
SampleTables == { <<>>, TableABC, TableDup, TableSep }

\* the query texts
Queries == { "q1", "q2" }

\* the limits a caller passes, and the default one
Limits == (1 .. MaxLimit) \cup { DefaultLimit }

(* ------------------------------- state -------------------------------- *)

VARIABLES
  table,      \* the rows of the notes table, in insertion order
  searchPc,   \* "idle", "pending" (queries in flight) or "done" (returned)
  query,      \* the query of the current search call
  limit,      \* the limit of the current search call
  vector,     \* the vector channel of the call
  fts,        \* the full-text channel of the call
  completion, \* the channels in the order in which their queries completed
  scores,     \* the score map of the call, in insertion order
  ranked,     \* the sorted and sliced entries, before keys are split
  results,    \* the sequence the call returned
  outcome,    \* "none", "returned" or "raised"
  kept,       \* an earlier call kept by the caller for comparison
  cursor,     \* the number of list elements a default-limit call has scored
  store,      \* the notes of the note store, in the order the store lists them
  ix,         \* the indexNotes passes: position, locals and returned value
  prevPass,   \* what the pass before the last one left behind
  build,      \* the handler that is registered: "plain" or "semantic"
  req,        \* the tool requests in flight: position, tool and response
  dbTables,   \* the names of the tables of the database
  indices,    \* the names of the indices of the notes table
  creations,  \* the number of createIndex calls made on the notes table
  indexed,    \* whether an index_notes request has called indexNotes yet
  folders,    \* the number of folders named "MCP Notes" in the Notes app
  madeFolders, \* the number of folders made by getOrCreateMCPFolder
  mcpNotes,   \* the names of the notes of the "MCP Notes" folder
  cn          \* the createNote call: position, title and result

searchVars == << searchPc, query, limit, vector, fts, completion,
                 scores, ranked, results, outcome, kept, cursor >>

indexVars == << store, ix, prevPass >>

serverVars == << build, req, dbTables, indices, creations, indexed >>

createVars == << folders, madeFolders, mcpNotes, cn >>

vars == << table, searchVars, indexVars, serverVars, createVars >>

\* a channel that has not been started
ChannelIdle ==
  [state |-> "idle", threw |-> FALSE, rejected |-> FALSE,
   value |-> <<>>, saw |-> <<>>]

\* a channel whose query has been issued and not yet answered
ChannelPending == [ChannelIdle EXCEPT !.state = "pending"]

NoCall == [valid |-> FALSE]

\* what the caller holds of a finished call
CallSummary ==
  [valid |-> TRUE, query |-> query, limit |-> limit,
   sawVector |-> vector.saw, sawFts |-> fts.saw,
   vectorResults |-> vector.value, ftsSearchResults |-> fts.value,
   results |-> results]

(* ------------------------ searchAndCombineResults --------------------- *)

Injective(f) == \A i, j \in DOMAIN f : f[i] = f[j] => i = j

\* the answers a channel query can give on table tbl with .limit(lim): any
\* ranking of at most lim different rows of the table
ChannelAnswers(tbl, lim) ==
  { [i \in DOMAIN f |-> tbl[f[i]]] :
      f \in { g \in UNION { [1 .. n -> 1 .. Len(tbl)] :
                              n \in 0 .. Min(lim, Len(tbl)) } : Injective(g) } }

\* no try/catch around the query: the channel's promise rejects
SettleNoCatch(threw, rows) ==
  [rejected |-> threw, value |-> IF threw THEN <<>> ELSE rows]

\* the catch block returns an element describing the error
SettleErrorRow(threw, rows) ==
  [rejected |-> FALSE,
   value |-> IF threw THEN << Row(IdOf(0), Str("e"), Str("e")) >> ELSE rows]

\* try { return await ...toArray() } catch (error) { return [] }
Settle(threw, rows) ==
  [rejected |-> FALSE, value |-> IF threw THEN <<>> ELSE rows]

\* the channel after its query has returned rows or thrown
Settled(threw, rows) ==
  LET s == Settle(threw, rows)
  IN [state |-> "settled", threw |-> threw, rejected |-> s.rejected,
      value |-> s.value, saw |-> table]

\* the lists are accumulated in the order in which the queries completed
CompletionOrder == completion

\* processResults(vectorResults, 0); processResults(ftsSearchResults, 0)
AccumulationOrder == << "vector", "fts" >>

ChannelValue(name) == IF name = "vector" THEN vector.value ELSE fts.value

\* const scores = new Map(); processResults(...); processResults(...)
Accumulated ==
  LET order == AccumulationOrder
  IN processResults(processResults(<<>>, ChannelValue(order[1]), 0),
                    ChannelValue(order[2]), 0)

\* .sort(...).slice(0, limit)
Ranked(map, lim) == Slice(SortEntries(map), lim)

\* .map(([key]) => { const [title, content] = key.split("::"); ... })
Stripped(entries) == [i \in DOMAIN entries |-> SplitKey(entries[i].key)]

\* the full-text query is issued only after the vector query was awaited
FtsNotStarted == ChannelIdle

\* the second async function of the array is called before Promise.all
FtsOnStart == ChannelPending

\* the call is entered: both queries are issued before Promise.all is awaited
SearchStart(q, lim, keep) ==
  /\ searchPc \in { "idle", "done" }
  /\ searchPc' = "pending"
  /\ query' = q
  /\ limit' = lim
  /\ vector' = ChannelPending
  /\ fts' = FtsOnStart
  /\ completion' = <<>>
  /\ scores' = <<>>
  /\ ranked' = <<>>
  /\ results' = <<>>
  /\ outcome' = "none"
  /\ kept' = IF keep /\ searchPc = "done" THEN CallSummary ELSE kept
  /\ cursor' = 0
  /\ UNCHANGED << table, indexVars, serverVars, createVars >>

\* notesTable.search(query, "vector").limit(limit).toArray() answers
VectorSearchReturns ==
  /\ searchPc = "pending"
  /\ vector.state = "pending"
  /\ \E rows \in ChannelAnswers(table, limit) : vector' = Settled(FALSE, rows)
  /\ completion' = Append(completion, "vector")
  /\ UNCHANGED << table, indexVars, serverVars, createVars, cursor,
                  searchPc, query, limit, fts, scores, ranked,
                  results, outcome, kept >>

\* the vector query throws
VectorSearchThrows ==
  /\ searchPc = "pending"
  /\ vector.state = "pending"
  /\ vector' = Settled(TRUE, <<>>)
  /\ completion' = Append(completion, "vector")
  /\ UNCHANGED << table, indexVars, serverVars, createVars, cursor,
                  searchPc, query, limit, fts, scores, ranked,
                  results, outcome, kept >>

\* notesTable.search(query, "fts", "content").limit(limit).toArray() answers
FtsSearchReturns ==
  /\ searchPc = "pending"
  /\ fts.state = "pending"
  /\ \E rows \in ChannelAnswers(table, limit) : fts' = Settled(FALSE, rows)
  /\ completion' = Append(completion, "fts")
  /\ UNCHANGED << table, indexVars, serverVars, createVars, cursor,
                  searchPc, query, limit, vector, scores, ranked,
                  results, outcome, kept >>

\* the full-text query throws
FtsSearchThrows ==
  /\ searchPc = "pending"
  /\ fts.state = "pending"
  /\ fts' = Settled(TRUE, <<>>)
  /\ completion' = Append(completion, "fts")
  /\ UNCHANGED << table, indexVars, serverVars, createVars, cursor,
                  searchPc, query, limit, vector, scores, ranked,
                  results, outcome, kept >>

\* Promise.all has settled: fuse, sort, slice, strip and return; a rejected
\* channel promise goes to the outer catch, which returns []
SearchReturn ==
  /\ searchPc = "pending"
  /\ vector.state = "settled"
  /\ fts.state = "settled"
  /\ searchPc' = "done"
  /\ outcome' = "returned"
  /\ IF vector.rejected \/ fts.rejected
     THEN /\ scores' = <<>>
          /\ ranked' = <<>>
          /\ results' = <<>>
     ELSE /\ scores' = Accumulated
          /\ ranked' = Ranked(Accumulated, limit)
          /\ results' = Stripped(Ranked(Accumulated, limit))
  /\ UNCHANGED << table, indexVars, serverVars, createVars, cursor, query,
                  limit, vector, fts, completion, kept >>

(* ------------------------------ note store ---------------------------- *)

\* a note of the store: its name and its body (raw markup)
Note(title, body) == [title |-> title, body |-> body]

\* one titled note
StoreOne == << Note(Str("a"), <<"<p>", "x">>) >>

\* two notes with different titles
StoreTwo == << Note(Str("a"), <<"<p>", "x">>), Note(Str("b"), Str("y")) >>

\* two notes with the same title
StoreSameTitle == << Note(Str("a"), <<"<p>", "x">>), Note(Str("a"), Str("y")) >>

\* the note stores a run starts from
\* one note whose title holds the separator of the score keys
StoreSepTitle == << Note(<<"a", ":", ":", "b">>, Str("x")) >>

\* the stores of one note
OneNoteStores == { StoreOne, StoreSepTitle }

SampleStores == { <<>>, StoreOne, StoreTwo, StoreSameTitle }

\* notes.map(note => note.properties().name)
getNotes(st) == [i \in DOMAIN st |-> st[i].title]

\* position of the last note named title at or after i, 0 if there is none
LastNamed(st, title, i) ==
  LET named == { m \in i .. Len(st) : st[m].title = title }
  IN IF named = {} THEN 0
     ELSE CHOOSE m \in named : \A o \in named : o <= m

\* position of the first note named title at or after i, 0 if there is none
RECURSIVE FirstNamed(_, _, _)
FirstNamed(st, title, i) ==
  IF i > Len(st) THEN 0
  ELSE IF st[i].title = title THEN i
  ELSE FirstNamed(st, title, i + 1)

\* the record parsed from "{}": it has no title
NoDetails == [title |-> <<>>, content |-> <<>>]

\* app.notes.whose({name: title})[0], as { title, content } or "{}"
getNoteDetailsByTitle(st, title) ==
  LET i == FirstNamed(st, title, 1)
  IN IF i = 0 THEN NoDetails
     ELSE [title |-> st[i].title, content |-> st[i].body]

IsText(c) == c # "<p>"

\* nhm.translate(content): the markup is taken out of the text
translate(content) == SelectSeq(content, IsText)

(* ------------------------------ indexNotes ---------------------------- *)

\* the passes that can run; the sequential specification runs the first only
Passes == { 1, 2 }

SeqPasses == { 1 }

PendingDetails ==
  [state |-> "pending", title |-> <<>>, content |-> <<>>, threw |-> FALSE]

SettledDetails(d) ==
  [state |-> "settled", title |-> d.title, content |-> d.content,
   threw |-> FALSE]

\* the {} returned from the catch block around one detail fetch
CaughtDetails == [SettledDetails(NoDetails) EXCEPT !.threw = TRUE]

NoReturn ==
  [returned |-> FALSE, chunks |-> 0, allNotes |-> 0, hasError |-> FALSE]

\* a pass that has not been started
PassIdle ==
  [pc |-> "idle", report |-> <<>>, allNotes |-> <<>>, details |-> <<>>,
   chunks |-> <<>>, ret |-> NoReturn, tableAtStart |-> <<>>,
   cleared |-> FALSE, failures |-> 0, rowsAtReturn |-> 0,
   listed |-> FALSE, thrown |-> "none", fetchOrder |-> <<>>,
   failing |-> {}, addCalls |-> 0]

NoPass == [valid |-> FALSE]

\* what a finished pass left behind
PassSummary(p) ==
  [valid |-> TRUE, rows |-> ix[p].rowsAtReturn, chunks |-> ix[p].ret.chunks,
   hasError |-> ix[p].ret.hasError, cleared |-> ix[p].cleared,
   failures |-> ix[p].failures]

\* one line appended to the report string
Line(kind, about) == [kind |-> kind, about |-> about]

\* delete("false"): nothing is deleted
DeleteNothing(tbl) == tbl

\* await notesTable.delete("true")
DeleteAll(tbl) == <<>>

\* the filter left out: every position is kept
RECURSIVE AllPositions(_, _)
AllPositions(details, i) ==
  IF i > Len(details) THEN <<>> ELSE <<i>> \o AllPositions(details, i + 1)

\* .filter((n) => n.title): the positions of the records that have a title
RECURSIVE Titled(_, _)
Titled(details, i) ==
  IF i > Len(details) THEN <<>>
  ELSE IF details[i].title # <<>> THEN <<i>> \o Titled(details, i + 1)
  ELSE Titled(details, i + 1)

\* a record whose translate call throws is dropped
ChunksDropFailing(details, failing) ==
  LET all == Titled(details, 1)
      ok(j) == j \notin failing
      kept_ == SelectSeq(all, ok)
  IN [n \in DOMAIN kept_ |->
        LET d == details[kept_[n]]
        IN Row(IdOf(n - 1), d.title, translate(d.content))]

\* .map((node) => { try { return {...node, content: nhm.translate(...)} }
\*                  catch (error) { return node } })
\* .map((note, index) => ({ id: index.toString(), ... }))
\* failing holds the positions whose translate call throws
Chunks(details, failing) ==
  LET kept_ == Titled(details, 1)
  IN [n \in DOMAIN kept_ |->
        LET d == details[kept_[n]]
        IN Row(IdOf(n - 1), d.title,
               IF kept_[n] \in failing THEN d.content ELSE translate(d.content))]

\* the lines `Error converting content for ${node.title}`, in map order
RECURSIVE ConvertLines(_, _, _)
ConvertLines(details, failing, i) ==
  IF i > Len(details) THEN <<>>
  ELSE IF details[i].title # <<>> /\ i \in failing
       THEN <<Line("convert", details[i].title)>>
              \o ConvertLines(details, failing, i + 1)
       ELSE ConvertLines(details, failing, i + 1)

\* the error field left out of the value returned from the catch block
ErrorReturnNoField ==
  [returned |-> TRUE, chunks |-> 0, allNotes |-> 0, hasError |-> FALSE]

\* the value returned from the catch block of indexNotes
ErrorReturn ==
  [returned |-> TRUE, chunks |-> 0, allNotes |-> 0, hasError |-> TRUE]

\* the number of listed titles is reported as the number of chunks
ReturnedAllNotes(built, titles) == Len(titles)

\* chunks: chunks.length
ReturnedChunks(built, titles) == Len(built)

\* no other pass is between its start and its return
Alone(p) == \A o \in Passes \ {p} : ix[o].pc \in { "idle", "done" }

\* indexNotes(notesTable) is entered: report = "" and the delete is issued
IndexStart(p) ==
  /\ ix[p].pc \in { "idle", "done" }
  /\ prevPass' = IF ix[p].pc = "done" THEN PassSummary(p) ELSE prevPass
  /\ ix' = [ix EXCEPT ![p] = [PassIdle EXCEPT !.pc = "clearing",
                                              !.tableAtStart = table]]
  /\ UNCHANGED << table, store, searchVars, serverVars,
               createVars >>

\* the delete succeeds; getNotes is called
ClearOk(p) ==
  /\ ix[p].pc = "clearing"
  /\ table' = DeleteAll(table)
  /\ ix' = [ix EXCEPT ![p].pc = "listing", ![p].cleared = TRUE]
  /\ UNCHANGED << store, prevPass, searchVars, serverVars,
               createVars >>

\* the delete throws with no catch block of its own: the pass ends in the
\* catch block of indexNotes
ClearFailsAborts(p) ==
  /\ ix[p].pc = "clearing"
  /\ ix' = [ix EXCEPT ![p].pc = "done",
                      ![p].report = Append(@, Line("indexing", <<>>)),
                      ![p].failures = @ + 1,
                      ![p].ret = ErrorReturn,
                      ![p].rowsAtReturn = Len(table)]
  /\ UNCHANGED << table, store, prevPass, searchVars, serverVars,
               createVars >>

\* the delete throws: a warning is appended and the pass goes on
ClearFails(p) ==
  /\ ix[p].pc = "clearing"
  /\ ix' = [ix EXCEPT ![p].pc = "listing",
                      ![p].report = Append(@, Line("clear", <<>>)),
                      ![p].failures = @ + 1]
  /\ UNCHANGED << table, store, prevPass, searchVars, serverVars,
               createVars >>

\* getNotes answers: one detail fetch per title is started
ListOk(p) ==
  /\ ix[p].pc = "listing"
  /\ ix' = [ix EXCEPT ![p].pc = "fetching",
                      ![p].listed = TRUE,
                      ![p].allNotes = getNotes(store),
                      ![p].details = [i \in DOMAIN store |-> PendingDetails]]
  /\ UNCHANGED << table, store, prevPass, searchVars, serverVars,
               createVars >>

\* getNotes throws: the catch block of indexNotes returns the error report
ListThrows(p) ==
  /\ ix[p].pc = "listing"
  /\ ix' = [ix EXCEPT ![p].pc = "done",
                      ![p].thrown = "list",
                      ![p].report = Append(@, Line("indexing", <<>>)),
                      ![p].failures = @ + 1,
                      ![p].ret = ErrorReturn,
                      ![p].rowsAtReturn = Len(table)]
  /\ UNCHANGED << table, store, prevPass, searchVars, serverVars,
               createVars >>

\* the detail fetch of title i answers with the note's record
FetchOk(p, i) ==
  /\ ix[p].pc = "fetching"
  /\ i \in DOMAIN ix[p].details
  /\ ix[p].details[i].state = "pending"
  /\ ix' = [ix EXCEPT ![p].details[i] =
              SettledDetails(getNoteDetailsByTitle(store, ix[p].allNotes[i])),
                      ![p].fetchOrder = Append(@, i)]
  /\ UNCHANGED << table, store, prevPass, searchVars, serverVars,
               createVars >>

\* the script of the detail fetch of title i fails inside and answers "{}"
FetchEmpty(p, i) ==
  /\ ix[p].pc = "fetching"
  /\ i \in DOMAIN ix[p].details
  /\ ix[p].details[i].state = "pending"
  /\ ix' = [ix EXCEPT ![p].details[i] = SettledDetails(NoDetails),
                      ![p].fetchOrder = Append(@, i),
                      ![p].failures = @ + 1]
  /\ UNCHANGED << table, store, prevPass, searchVars, serverVars,
               createVars >>

\* the line is appended to the report as it stood when the fetches were
\* issued, so the lines of the fetches that threw before are lost
FetchThrowsStaleReport(p, i) ==
  /\ ix[p].pc = "fetching"
  /\ i \in DOMAIN ix[p].details
  /\ ix[p].details[i].state = "pending"
  /\ LET AtIssue(line) == line.kind # "fetch"
     IN ix' = [ix EXCEPT
                 ![p].details[i] = CaughtDetails,
                 ![p].fetchOrder = Append(@, i),
                 ![p].report = Append(SelectSeq(@, AtIssue),
                                      Line("fetch", ix[p].allNotes[i])),
                 ![p].failures = @ + 1]
  /\ UNCHANGED << table, store, prevPass, searchVars, serverVars,
               createVars >>

\* the detail fetch of title i throws: a line is appended, {} stands for it
FetchThrows(p, i) ==
  /\ ix[p].pc = "fetching"
  /\ i \in DOMAIN ix[p].details
  /\ ix[p].details[i].state = "pending"
  /\ ix' = [ix EXCEPT ![p].details[i] = CaughtDetails,
                      ![p].fetchOrder = Append(@, i),
                      ![p].report = Append(@, Line("fetch", ix[p].allNotes[i])),
                      ![p].failures = @ + 1]
  /\ UNCHANGED << table, store, prevPass, searchVars, serverVars,
               createVars >>

\* the test for an empty chunk list left out: add is always called
NeverNoChunks(built) == FALSE

\* if (chunks.length === 0)
NoChunks(built) == Len(built) = 0

\* Promise.all is not awaited: the chunks are built at once
NoneAwaited(p) == TRUE

\* await Promise.all(...): every detail fetch of the pass has settled
AllFetched(p) ==
  \A i \in DOMAIN ix[p].details : ix[p].details[i].state = "settled"

\* Promise.all has resolved: filter, normalize, number; with no chunk the
\* pass returns, otherwise add is called
BuildChunks(p, failing) ==
  /\ ix[p].pc = "fetching"
  /\ AllFetched(p)
  /\ LET built == Chunks(ix[p].details, failing)
         lines == ConvertLines(ix[p].details, failing, 1)
         threw == { i \in failing : ix[p].details[i].title # <<>> }
     IN IF NoChunks(built)
        THEN ix' = [ix EXCEPT
                 ![p].pc = "done",
                 ![p].failing = threw,
                 ![p].report = (@ \o lines) \o <<Line("novalid", <<>>)>>,
                 ![p].ret = [returned |-> TRUE, chunks |-> 0,
                             allNotes |-> Len(ix[p].allNotes),
                             hasError |-> FALSE],
                 ![p].rowsAtReturn = Len(table)]
        ELSE ix' = [ix EXCEPT
                 ![p].pc = "adding",
                 ![p].failing = threw,
                 ![p].addCalls = @ + 1,
                 ![p].report = @ \o lines,
                 ![p].chunks = built]
  /\ UNCHANGED << table, store, prevPass, searchVars, serverVars,
               createVars >>

\* await notesTable.add(chunks) succeeds: the pass returns
AddOk(p) ==
  /\ ix[p].pc = "adding"
  /\ Len(table) + Len(ix[p].chunks) <= MaxRows
  /\ table' = table \o ix[p].chunks
  /\ ix' = [ix EXCEPT
              ![p].pc = "done",
              ![p].ret = [returned |-> TRUE,
                          chunks |-> ReturnedChunks(ix[p].chunks, ix[p].allNotes),
                          allNotes |-> Len(ix[p].allNotes),
                          hasError |-> FALSE],
              ![p].rowsAtReturn = Len(table')]
  /\ UNCHANGED << store, prevPass, searchVars, serverVars,
               createVars >>

\* add throws: the catch block of indexNotes returns the error report
AddThrows(p) ==
  /\ ix[p].pc = "adding"
  /\ ix' = [ix EXCEPT ![p].pc = "done",
                      ![p].thrown = "add",
                      ![p].report = Append(@, Line("indexing", <<>>)),
                      ![p].failures = @ + 1,
                      ![p].ret = ErrorReturn,
                      ![p].rowsAtReturn = Len(table)]
  /\ UNCHANGED << table, store, prevPass, searchVars, serverVars,
               createVars >>

(* ------------------- searches with the default limit ----------------- *)

\* With lists of DefaultLimit rows the common denominator of the scores no
\* longer fits the integers, so here a score is kept as an exact fraction.

\* the constant k taken as 1
ExactScoreSmallK(startRank, idx) == [num |-> 1, den |-> 1 + startRank + idx]

\* const score = 1 / (k + startRank + idx)
ExactScore(startRank, idx) == [num |-> 1, den |-> k + startRank + idx]

\* (scores.get(key) || 0) + score
ExactSum(a, b) ==
  [num |-> a.num * b.den + b.num * a.den, den |-> a.den * b.den]

\* scores.set(key, (scores.get(key) || 0) + score): the keys of a Map are
\* unique, so at most one position holds the key
ExactMapAdd(map, key, score) ==
  LET at == { j \in DOMAIN map : map[j].key = key }
      i == IF at = {} THEN 0 ELSE CHOOSE j \in at : TRUE
  IN IF i = 0 THEN Append(map, [key |-> key, score |-> score])
     ELSE [map EXCEPT ![i].score = ExactSum(@, score)]

\* .sort(([, a], [, b]) => b - a): x goes before y when b - a < 0
ExactBefore(x, y) == x.score.num * y.score.den > y.score.num * x.score.den

\* the place of entry i after the sort: behind the entries that go before it
\* and behind the earlier entries it does not go before (the sort is stable)
ExactPlace(map, i) ==
  1 + Cardinality({ j \in DOMAIN map :
                      \/ ExactBefore(map[j], map[i])
                      \/ j < i /\ ~ExactBefore(map[i], map[j]) })

\* Array.from(scores.entries()).sort(...)
ExactSortEntries(map) ==
  [n \in DOMAIN map |-> map[CHOOSE i \in DOMAIN map : ExactPlace(map, i) = n]]

\* .sort(...).slice(0, limit)
ExactRanked(map, lim) == Slice(ExactSortEntries(map), lim)

Decimals == << "0", "1", "2", "3", "4", "5", "6", "7", "8", "9" >>

\* the numerals of the row numbers
Numeral(n) ==
  IF n < 10 THEN << Decimals[n + 1] >>
  ELSE << Decimals[(n \div 10) + 1], Decimals[(n % 10) + 1] >>

\* row number n of a table of twice DefaultLimit rows
WideRow(n) == Row(Numeral(n - 1), <<"n">> \o Numeral(n), Str("x"))

WideTable == [n \in 1 .. 2 * DefaultLimit |-> WideRow(n)]

\* the lengths of the lists a channel returns: one row, one row less than
\* the limit, the limit
WideLengths == { 1, DefaultLimit - 1, DefaultLimit }

\* the positions of the full-text list that can hold a row which the vector
\* list holds too
SharedPositions == { 1, 2, DefaultLimit - 1, DefaultLimit }

\* the vector list: the first len rows of the table
WideVector(len) == [n \in 1 .. len |-> WideRow(n)]

\* a full-text list: at the positions in shared it holds a row of the first
\* DefaultLimit rows of the table, at the same rank or at the mirrored one,
\* elsewhere a row of the second DefaultLimit rows
WideFts(len, shared, mirrored) ==
  [n \in 1 .. len |->
     IF n \in shared
       THEN WideRow(IF mirrored THEN DefaultLimit + 1 - n ELSE n)
       ELSE WideRow(DefaultLimit + n)]

\* the vector query answers with one of the lists
WideVectorReturns(len) ==
  /\ searchPc = "pending"
  /\ vector.state = "pending"
  /\ vector' = Settled(FALSE, WideVector(len))
  /\ completion' = Append(completion, "vector")
  /\ UNCHANGED << table, indexVars, serverVars, createVars, searchPc, query,
                  limit, fts, scores, ranked, results, outcome, kept,
                  cursor >>

\* the full-text query answers with one of the lists
WideFtsReturns(len, shared, mirrored) ==
  /\ searchPc = "pending"
  /\ fts.state = "pending"
  /\ fts' = Settled(FALSE, WideFts(len, shared, mirrored))
  /\ completion' = Append(completion, "fts")
  /\ UNCHANGED << table, indexVars, serverVars, createVars, searchPc, query,
                  limit, vector, scores, ranked, results, outcome, kept,
                  cursor >>

\* the lists in the order in which processResults is called on them
WideLists == << vector.value, fts.value >>

\* the list that holds the element scored after n elements, and the index
\* of the element in it
WideNext(n) ==
  IF n < Len(vector.value) THEN [list |-> 1, idx |-> n]
  ELSE [list |-> 2, idx |-> n - Len(vector.value)]

\* one turn of results.forEach((result, idx) => ...) in processResults,
\* first over the vector list, then over the full-text list
WideProcess ==
  /\ searchPc = "pending"
  /\ vector.state = "settled"
  /\ fts.state = "settled"
  /\ cursor < Len(vector.value) + Len(fts.value)
  /\ LET at == WideNext(cursor)
         result == WideLists[at.list][at.idx + 1]
     IN scores' = ExactMapAdd(scores, Key(result), ExactScore(0, at.idx))
  /\ cursor' = cursor + 1
  /\ UNCHANGED << table, indexVars, serverVars, createVars, searchPc, query,
                  limit, vector, fts, completion, ranked, results, outcome,
                  kept >>

\* both lists are scored: sort, slice, split the keys, return
WideSearchReturn ==
  /\ searchPc = "pending"
  /\ vector.state = "settled"
  /\ fts.state = "settled"
  /\ cursor = Len(vector.value) + Len(fts.value)
  /\ searchPc' = "done"
  /\ outcome' = "returned"
  /\ ranked' = ExactRanked(scores, limit)
  /\ results' = Stripped(ExactRanked(scores, limit))
  /\ UNCHANGED << table, indexVars, serverVars, createVars, query, limit,
                  vector, fts, completion, scores, kept, cursor >>

(* --------------------------- tool requests ---------------------------- *)

\* the requests the server has in flight at once
Callers == { 1, 2 }

\* the names a request can carry; "other" is a name no branch tests for
ToolNames ==
  { "create_note", "list_notes", "get_note", "index_notes", "search_notes",
    "other" }

\* the handlers: the one of src/index.ts and the one with semantic search
Builds == { "plain", "semantic" }

\* the names the if-chain of the handler has a branch for
Known(b, name) ==
  IF b = "plain"
    THEN name \in { "create_note", "list_notes", "get_note", "search_notes" }
    ELSE name \in { "create_note", "list_notes", "get_note", "index_notes",
                    "search_notes" }

\* the tools whose body can throw: indexNotes and searchAndCombineResults
\* catch everything themselves, the scripts of the other tools can fail
CanThrow(b, name) ==
  IF b = "plain"
    THEN TRUE
    ELSE name \in { "create_note", "list_notes", "get_note" }

RequestIdle ==
  [pc |-> "idle", name |-> "other", argsOk |-> TRUE, seen |-> {},
   created |-> FALSE, kind |-> "none", cause |-> "none",
   fresh |-> TRUE, text |-> "none"]

\* what the catch blocks do with an error thrown in the branch of a tool:
\* src/index.ts returns the message as text; the semantic handler returns it
\* as text from the inner catch of get_note and rethrows it everywhere else
Caught(b, name) ==
  IF b = "plain" \/ name = "get_note" THEN "text" ELSE "raised"

\* a tool request arrives
Receive(c, name, ok) ==
  /\ req[c].pc \in { "idle", "done" }
  /\ req' = [req EXCEPT ![c] =
               [RequestIdle EXCEPT
                  !.pc = IF build = "semantic" THEN "createTable"
                                               ELSE "dispatch",
                  !.name = name,
                  !.argsOk = ok,
                  !.fresh = ~indexed]]
  /\ UNCHANGED << table, searchVars, indexVars, build, indexed, dbTables, indices,
                  creations, createVars >>

\* createNotesTable: createEmptyTable(..., existOk: true)
CreateEmptyTable(c) ==
  /\ req[c].pc = "createTable"
  /\ dbTables' = dbTables \cup { "notes" }
  /\ req' = [req EXCEPT ![c].pc = "listIndices"]
  /\ UNCHANGED << table, searchVars, indexVars, build, indexed, indices, creations,
                  createVars >>

\* createEmptyTable throws: the call stands outside the try of the handler
CreateEmptyTableThrows(c) ==
  /\ req[c].pc = "createTable"
  /\ req' = [req EXCEPT ![c].pc = "done",
                        ![c].kind = "raised",
                        ![c].cause = "table"]
  /\ UNCHANGED << table, searchVars, indexVars, build, indexed, dbTables, indices,
                  creations, createVars >>

\* createNotesTable: indices = await notesTable.listIndices()
ListIndices(c) ==
  /\ req[c].pc = "listIndices"
  /\ req' = [req EXCEPT ![c].pc = "checkIndex", ![c].seen = indices]
  /\ UNCHANGED << table, searchVars, indexVars, build, indexed, dbTables, indices,
                  creations, createVars >>

\* createNotesTable: no content_idx among the listed indices, so
\* createIndex("content", { config: fts, replace: true }) is called
CreateIndex(c) ==
  /\ req[c].pc = "checkIndex"
  /\ "content_idx" \notin req[c].seen
  /\ indices' = indices \cup { "content_idx" }
  /\ creations' = creations + 1
  /\ req' = [req EXCEPT ![c].pc = "dispatch", ![c].created = TRUE]
  /\ UNCHANGED << table, searchVars, indexVars, build, indexed, dbTables, createVars >>

\* createNotesTable: content_idx was listed, nothing is created
IndexFound(c) ==
  /\ req[c].pc = "checkIndex"
  /\ "content_idx" \in req[c].seen
  /\ req' = [req EXCEPT ![c].pc = "dispatch"]
  /\ UNCHANGED << table, searchVars, indexVars, build, indexed, dbTables, indices,
                  creations, createVars >>

\* no branch for the name: src/index.ts returns "Unknown tool", the semantic
\* handler throws inside its try and rethrows from its catch
UnknownTool(c) ==
  /\ req[c].pc = "dispatch"
  /\ ~Known(build, req[c].name)
  /\ req' = [req EXCEPT ![c].pc = "done",
                        ![c].kind = IF build = "plain" THEN "text"
                                                       ELSE "raised",
                        ![c].cause = "unknown"]
  /\ UNCHANGED << table, searchVars, indexVars, build, indexed, dbTables, indices,
                  creations, createVars >>

\* Schema.parse(args) throws a ZodError
ParseFails(c) ==
  /\ req[c].pc = "dispatch"
  /\ Known(build, req[c].name)
  /\ ~req[c].argsOk
  /\ req' = [req EXCEPT ![c].pc = "done",
                        ![c].kind = Caught(build, req[c].name),
                        ![c].cause = "validation"]
  /\ UNCHANGED << table, searchVars, indexVars, build, indexed, dbTables, indices,
                  creations, createVars >>

\* Schema.parse(args) returns and the body of the tool is entered
ParseOk(c) ==
  /\ req[c].pc = "dispatch"
  /\ Known(build, req[c].name)
  /\ req[c].argsOk
  /\ req' = [req EXCEPT ![c].pc = "tool"]
  /\ indexed' = (indexed \/ req[c].name = "index_notes")
  /\ UNCHANGED << table, searchVars, indexVars, build, dbTables, indices,
                  creations, createVars >>

\* the text a tool returns when it finishes; search_notes of the semantic
\* handler opens the table "notes" and asks for an index run when that fails
Answer(b, name, tables) ==
  IF b = "semantic" /\ name = "search_notes"
    THEN IF "notes" \in tables THEN "results" ELSE "indexFirst"
  ELSE IF name = "search_notes" THEN "results"
  ELSE "ok"

\* the tool finishes: return createTextResponse(...)
ToolReturns(c) ==
  /\ req[c].pc = "tool"
  /\ req' = [req EXCEPT ![c].pc = "done",
                        ![c].kind = "text",
                        ![c].text = Answer(build, req[c].name, dbTables)]
  /\ UNCHANGED << table, searchVars, indexVars, build, indexed, dbTables, indices,
                  creations, createVars >>

\* the body of the tool throws
ToolThrows(c) ==
  /\ req[c].pc = "tool"
  /\ CanThrow(build, req[c].name)
  /\ req' = [req EXCEPT ![c].pc = "done",
                        ![c].kind = Caught(build, req[c].name),
                        ![c].cause = "tool"]
  /\ UNCHANGED << table, searchVars, indexVars, build, indexed, dbTables, indices,
                  creations, createVars >>

(* ----------------------------- create_note ---------------------------- *)

\* titles: plain, with a double quote, with a backslash, with a line break
Titles ==
  { <<"a">>, <<"a", "\"">>, <<"\\", "a">>, <<"a", "\n">> }

\* title.replace(/[\\'"]/g, "\\$&"): a backslash before \ ' and "
RECURSIVE Escape(_)
Escape(s) ==
  IF s = <<>> THEN <<>>
  ELSE (IF Head(s) \in { "\\", "'", "\"" } THEN << "\\", Head(s) >>
                                           ELSE << Head(s) >>)
       \o Escape(Tail(s))

\* the script reads name: "<escaped>" as a string literal: a backslash
\* stands with the character after it, and a bare double quote or line
\* break inside the literal makes the script fail to compile
RECURSIVE Literal(_)
Literal(s) ==
  IF s = <<>> THEN [ok |-> TRUE, text |-> <<>>]
  ELSE IF Head(s) = "\\"
    THEN IF Len(s) = 1 THEN [ok |-> FALSE, text |-> <<>>]
         ELSE LET rest == Literal(Tail(Tail(s)))
              IN [ok |-> rest.ok, text |-> << s[2] >> \o rest.text]
  ELSE IF Head(s) \in { "\"", "\n" } THEN [ok |-> FALSE, text |-> <<>>]
  ELSE LET rest == Literal(Tail(s))
       IN [ok |-> rest.ok, text |-> << Head(s) >> \o rest.text]

CreateIdle == [pc |-> "idle", title |-> <<"a">>, result |-> "none"]

\* createNote(title, content) is entered
CreateNoteStart(t) ==
  /\ cn.pc \in { "idle", "done" }
  /\ cn' = [pc |-> "folder", title |-> t, result |-> "none"]
  /\ UNCHANGED << table, searchVars, indexVars, serverVars, folders,
                  madeFolders, mcpNotes >>

\* the script makes a folder whether or not one is found
FolderAlwaysMade ==
  /\ cn.pc = "folder"
  /\ folders' = folders + 1
  /\ madeFolders' = madeFolders + 1
  /\ cn' = [cn EXCEPT !.pc = "make"]
  /\ UNCHANGED << table, searchVars, indexVars, serverVars, mcpNotes >>

\* getOrCreateMCPFolder: the script makes the folder when none has the name
FolderOk ==
  /\ cn.pc = "folder"
  /\ folders' = IF folders = 0 THEN 1 ELSE folders
  /\ madeFolders' = IF folders = 0 THEN madeFolders + 1 ELSE madeFolders
  /\ cn' = [cn EXCEPT !.pc = "make"]
  /\ UNCHANGED << table, searchVars, indexVars, serverVars, mcpNotes >>

\* getOrCreateMCPFolder: runJxa throws, false is returned and not looked at
FolderFails ==
  /\ cn.pc = "folder"
  /\ cn' = [cn EXCEPT !.pc = "make"]
  /\ UNCHANGED << table, searchVars, indexVars, serverVars, folders,
                  madeFolders, mcpNotes >>

\* the second script: it throws when it does not compile or finds no folder,
\* else it makes the note in the folder and createNote returns true
MakeNote ==
  /\ cn.pc = "make"
  /\ LET name == Literal(Escape(cn.title))
     IN IF name.ok /\ folders > 0
          THEN /\ mcpNotes' = mcpNotes \cup { name.text }
               /\ cn' = [cn EXCEPT !.pc = "done", !.result = "success"]
          ELSE /\ mcpNotes' = mcpNotes
               /\ cn' = [cn EXCEPT !.pc = "done", !.result = "threw"]
  /\ UNCHANGED << table, searchVars, indexVars, serverVars, folders,
                  madeFolders >>

\* the second script cannot be run: runJxa throws
MakeFails ==
  /\ cn.pc = "make"
  /\ cn' = [cn EXCEPT !.pc = "done", !.result = "threw"]
  /\ UNCHANGED << table, searchVars, indexVars, serverVars, folders,
                  madeFolders, mcpNotes >>

(* -------------------------- specifications ---------------------------- *)

SearchIdle ==
  /\ searchPc = "idle"
  /\ query = "q1"
  /\ limit = DefaultLimit
  /\ vector = ChannelIdle
  /\ fts = ChannelIdle
  /\ completion = <<>>
  /\ scores = <<>>
  /\ ranked = <<>>
  /\ results = <<>>
  /\ outcome = "none"
  /\ kept = NoCall
  /\ cursor = 0

IndexIdle ==
  /\ ix = [p \in Passes |-> PassIdle]
  /\ prevPass = NoPass

ServerIdle ==
  /\ build = "semantic"
  /\ req = [c \in Callers |-> RequestIdle]
  /\ dbTables = {}
  /\ indices = {}
  /\ creations = 0
  /\ indexed = FALSE

NotesAppIdle ==
  /\ folders = 0
  /\ madeFolders = 0
  /\ mcpNotes = {}
  /\ cn = CreateIdle

\* searches on a table that was filled before
InitSearch ==
  /\ table \in SampleTables
  /\ store = <<>>
  /\ SearchIdle
  /\ IndexIdle
  /\ ServerIdle
  /\ NotesAppIdle

NextSearch ==
  \/ \E q \in Queries, lim \in Limits : SearchStart(q, lim, FALSE)
  \/ VectorSearchReturns
  \/ VectorSearchThrows
  \/ FtsSearchReturns
  \/ FtsSearchThrows
  \/ SearchReturn

SpecSearch == InitSearch /\ [][NextSearch]_vars

\* two rows with different titles and contents
TablePair ==
  << Row(IdOf(0), Str("a"), Str("x")),
     Row(IdOf(1), Str("b"), Str("y")) >>

RepeatLimits == { 1, 2 }

\* repeated searches, the caller keeping an earlier call to compare with
InitRepeat ==
  /\ table \in { <<>>, TablePair }
  /\ store = <<>>
  /\ SearchIdle
  /\ IndexIdle
  /\ ServerIdle
  /\ NotesAppIdle

NextRepeat ==
  \/ \E q \in Queries, lim \in RepeatLimits, keep \in BOOLEAN :
        SearchStart(q, lim, keep)
  \/ VectorSearchReturns
  \/ VectorSearchThrows
  \/ FtsSearchReturns
  \/ FtsSearchThrows
  \/ SearchReturn

SpecRepeat == InitRepeat /\ [][NextRepeat]_vars

\* a note store and a table that was never indexed
Init ==
  /\ table = <<>>
  /\ store \in SampleStores
  /\ SearchIdle
  /\ IndexIdle
  /\ ServerIdle
  /\ NotesAppIdle

\* the translate calls that can throw: any of the fetched positions
Failing(p) == SUBSET (DOMAIN ix[p].details)

\* indexNotes passes run one after the other
Next ==
  \/ \E p \in SeqPasses : Alone(p) /\ IndexStart(p)
  \/ \E p \in SeqPasses : ClearOk(p)
  \/ \E p \in SeqPasses : ClearFails(p)
  \/ \E p \in SeqPasses : ListOk(p)
  \/ \E p \in SeqPasses : ListThrows(p)
  \/ \E p \in SeqPasses : \E i \in DOMAIN ix[p].details : FetchOk(p, i)
  \/ \E p \in SeqPasses : \E i \in DOMAIN ix[p].details : FetchEmpty(p, i)
  \/ \E p \in SeqPasses : \E i \in DOMAIN ix[p].details : FetchThrows(p, i)
  \/ \E p \in SeqPasses : \E failing \in Failing(p) : BuildChunks(p, failing)
  \/ \E p \in SeqPasses : AddOk(p)
  \/ \E p \in SeqPasses : AddThrows(p)

Spec == Init /\ [][Next]_vars

\* one indexNotes pass on a store of one note, then searches on the table
InitEndToEnd ==
  /\ table = <<>>
  /\ store \in OneNoteStores
  /\ SearchIdle
  /\ IndexIdle
  /\ ServerIdle
  /\ NotesAppIdle

NextEndToEnd ==
  \/ ix[1].pc = "idle" /\ IndexStart(1)
  \/ ClearOk(1)
  \/ ClearFails(1)
  \/ ListOk(1)
  \/ ListThrows(1)
  \/ \E i \in DOMAIN ix[1].details : FetchOk(1, i)
  \/ \E i \in DOMAIN ix[1].details : FetchEmpty(1, i)
  \/ \E i \in DOMAIN ix[1].details : FetchThrows(1, i)
  \/ \E failing \in Failing(1) : BuildChunks(1, failing)
  \/ AddOk(1)
  \/ AddThrows(1)
  \/ /\ ix[1].pc = "done"
     /\ \E q \in Queries, lim \in Limits : SearchStart(q, lim, FALSE)
  \/ VectorSearchReturns
  \/ VectorSearchThrows
  \/ FtsSearchReturns
  \/ FtsSearchThrows
  \/ SearchReturn

SpecEndToEnd == InitEndToEnd /\ [][NextEndToEnd]_vars

\* the table an earlier pass over StoreOne has left
IndexedOne == << Row(IdOf(0), Str("a"), Str("x")) >>

\* one indexNotes pass and searches on the same table, in any interleaving
InitOverlap ==
  /\ table = IndexedOne
  /\ store = StoreOne
  /\ SearchIdle
  /\ IndexIdle
  /\ ServerIdle
  /\ NotesAppIdle

NextOverlap ==
  \/ ix[1].pc = "idle" /\ IndexStart(1)
  \/ ClearOk(1)
  \/ ClearFails(1)
  \/ ListOk(1)
  \/ ListThrows(1)
  \/ \E i \in DOMAIN ix[1].details : FetchOk(1, i)
  \/ \E i \in DOMAIN ix[1].details : FetchEmpty(1, i)
  \/ \E i \in DOMAIN ix[1].details : FetchThrows(1, i)
  \/ \E failing \in Failing(1) : BuildChunks(1, failing)
  \/ AddOk(1)
  \/ AddThrows(1)
  \/ \E q \in Queries : SearchStart(q, 1, FALSE)
  \/ VectorSearchReturns
  \/ VectorSearchThrows
  \/ FtsSearchReturns
  \/ FtsSearchThrows
  \/ SearchReturn

SpecOverlap == InitOverlap /\ [][NextOverlap]_vars

\* two indexNotes passes on the same table, in any interleaving
InitTwoPasses ==
  /\ table \in { <<>>, IndexedOne }
  /\ store \in { <<>>, StoreOne }
  /\ SearchIdle
  /\ IndexIdle
  /\ ServerIdle
  /\ NotesAppIdle

NextTwoPasses ==
  \/ \E p \in Passes : ix[p].pc = "idle" /\ IndexStart(p)
  \/ \E p \in Passes : ClearOk(p)
  \/ \E p \in Passes : ClearFails(p)
  \/ \E p \in Passes : ListOk(p)
  \/ \E p \in Passes : ListThrows(p)
  \/ \E p \in Passes : \E i \in DOMAIN ix[p].details : FetchOk(p, i)
  \/ \E p \in Passes : \E i \in DOMAIN ix[p].details : FetchEmpty(p, i)
  \/ \E p \in Passes : \E i \in DOMAIN ix[p].details : FetchThrows(p, i)
  \/ \E p \in Passes : \E failing \in Failing(p) : BuildChunks(p, failing)
  \/ \E p \in Passes : AddOk(p)
  \/ \E p \in Passes : AddThrows(p)

SpecTwoPasses == InitTwoPasses /\ [][NextTwoPasses]_vars

\* searches with the default limit on a table of twice as many rows
InitDefault ==
  /\ table = WideTable
  /\ store = <<>>
  /\ SearchIdle
  /\ IndexIdle
  /\ ServerIdle
  /\ NotesAppIdle

NextDefault ==
  \/ SearchStart("q1", DefaultLimit, FALSE)
  \/ \E len \in WideLengths : WideVectorReturns(len)
  \/ \E len \in WideLengths, shared \in SUBSET SharedPositions,
        mirrored \in BOOLEAN : WideFtsReturns(len, shared, mirrored)
  \/ WideProcess
  \/ WideSearchReturn

SpecDefault == InitDefault /\ [][NextDefault]_vars

\* tool requests that overlap, under either handler
InitServer ==
  /\ table = <<>>
  /\ store = <<>>
  /\ SearchIdle
  /\ IndexIdle
  /\ build \in Builds
  /\ req = [c \in Callers |-> RequestIdle]
  /\ dbTables \in { {}, { "notes" } }
  /\ indices = {}
  /\ creations = 0
  /\ indexed = FALSE
  /\ NotesAppIdle

NextServer ==
  \/ \E c \in Callers, name \in ToolNames, ok \in BOOLEAN : Receive(c, name, ok)
  \/ \E c \in Callers : CreateEmptyTable(c)
  \/ \E c \in Callers : CreateEmptyTableThrows(c)
  \/ \E c \in Callers : ListIndices(c)
  \/ \E c \in Callers : CreateIndex(c)
  \/ \E c \in Callers : IndexFound(c)
  \/ \E c \in Callers : UnknownTool(c)
  \/ \E c \in Callers : ParseFails(c)
  \/ \E c \in Callers : ParseOk(c)
  \/ \E c \in Callers : ToolReturns(c)
  \/ \E c \in Callers : ToolThrows(c)

SpecServer == InitServer /\ [][NextServer]_vars

\* create_note calls one after the other, the folder there or not at first
InitCreate ==
  /\ table = <<>>
  /\ store = <<>>
  /\ SearchIdle
  /\ IndexIdle
  /\ ServerIdle
  /\ folders \in { 0, 1 }
  /\ madeFolders = 0
  /\ mcpNotes = {}
  /\ cn = CreateIdle

NextCreate ==
  \/ \E t \in Titles : CreateNoteStart(t)
  \/ FolderOk
  \/ FolderFails
  \/ MakeNote
  \/ MakeFails

SpecCreate == InitCreate /\ [][NextCreate]_vars

(* ------------------------------ properties --------------------------- *)

\* the fusion keys of the rows of a channel list
KeysOf(list) == { Key(list[i]) : i \in DOMAIN list }

\* the sum of ScoreScale / (60 + rank) over a set of positions of one list
RECURSIVE SumOver(_)
SumOver(positions) ==
  IF positions = {} THEN 0
  ELSE LET i == CHOOSE j \in positions : TRUE
       IN (ScoreScale \div (60 + (i - 1))) + SumOver(positions \ {i})

\* the contributions of the positions of list at which key occurs
Contribution(list, key) ==
  SumOver({ i \in DOMAIN list : Key(list[i]) = key })

\* the fused score of key: the contributions of both channels
Fused(key) == Contribution(vector.value, key) + Contribution(fts.value, key)

\* the score the map holds for key
ScoreIn(map, key) == map[CHOOSE i \in DOMAIN map : map[i].key = key].score

KeyA == Key(TableABC[1])
KeyB == Key(TableABC[2])
KeyC == Key(TableABC[3])

\* vector ranks [A, B], full-text ranks [B, C]
ExampleLists ==
  /\ vector.value = << TableABC[1], TableABC[2] >>
  /\ fts.value = << TableABC[2], TableABC[3] >>

\* C1: every distinct key of the two channel lists is scored with the sum,
\* over both channels, of 1/(60 + rank) for each position at which it occurs;
\* for vector ranks [A, B] and full-text ranks [B, C] the scores are
\* A = 1/60, B = 1/61 + 1/60, C = 1/61 and the returned order is B, A, C.
C1_RrfScores ==
  searchPc = "done" =>
    /\ { scores[i].key : i \in DOMAIN scores }
         = KeysOf(vector.value) \cup KeysOf(fts.value)
    /\ \A i \in DOMAIN scores : scores[i].score = Fused(scores[i].key)
    /\ ExampleLists =>
         /\ ScoreIn(scores, KeyA) = ScoreScale \div 60
         /\ ScoreIn(scores, KeyB) = (ScoreScale \div 61) + (ScoreScale \div 60)
         /\ ScoreIn(scores, KeyC) = ScoreScale \div 61
         /\ limit >= 3 =>
              results = << [title |-> Str("b"), content |-> Str("y")],
                           [title |-> Str("a"), content |-> Str("x")],
                           [title |-> Str("c"), content |-> Str("z")] >>

\* the example of C1 has been searched with a limit that keeps all three keys
C1_Witness == searchPc = "done" /\ ExampleLists /\ limit = 3

\* first position of key in the vector list followed by the full-text list
FirstSeen(key) ==
  LET all == vector.value \o fts.value
  IN CHOOSE i \in DOMAIN all :
       /\ Key(all[i]) = key
       /\ \A j \in 1 .. (i - 1) : Key(all[j]) # key

\* C2: the returned sequence is ordered by fused score descending, and two
\* keys of equal fused score are in the order in which they were first seen
\* (the vector list in rank order, then the full-text list in rank order).
C2_OrderAndTies ==
  searchPc = "done" =>
    /\ Len(results) = Len(ranked)
    /\ \A i \in DOMAIN ranked : results[i] = SplitKey(ranked[i].key)
    /\ \A i, j \in DOMAIN ranked :
         i < j =>
           /\ Fused(ranked[i].key) >= Fused(ranked[j].key)
           /\ Fused(ranked[i].key) = Fused(ranked[j].key)
                => FirstSeen(ranked[i].key) < FirstSeen(ranked[j].key)

\* a returned sequence with two keys of equal score, the first one from the
\* vector list and the second one only in the full-text list
C2_Witness ==
  /\ searchPc = "done"
  /\ vector.value = << TableABC[1] >>
  /\ fts.value = << TableABC[2] >>
  /\ Len(ranked) = 2
  /\ ranked[1].score = ranked[2].score
  /\ completion = << "fts", "vector" >>

\* C3: the call returns exactly min(limit, number of distinct keys) results,
\* they are the highest-scored keys, and no element carries a score.
C3_TopLimit ==
  searchPc = "done" =>
    LET keys == KeysOf(vector.value) \cup KeysOf(fts.value)
        returned == { ranked[i].key : i \in DOMAIN ranked }
    IN /\ Len(results) = Min(limit, Cardinality(keys))
       /\ Cardinality(returned) = Len(results)
       /\ returned \subseteq keys
       /\ \A in \in returned, out \in keys \ returned : Fused(in) >= Fused(out)
       /\ \A i \in DOMAIN results : DOMAIN results[i] = { "title", "content" }

\* more distinct keys than the limit: the sequence is cut
C3_Witness ==
  /\ searchPc = "done"
  /\ Cardinality(KeysOf(vector.value) \cup KeysOf(fts.value)) = 3
  /\ limit = 2
  /\ Len(results) = 2

\* C4: rows with identical title and content, in different channels or in
\* the same list, give one element whose score is the sum of all their
\* contributions, and no (title, content) pair is returned twice.
C4_OneElementPerPair ==
  searchPc = "done" =>
    /\ \A i, j \in DOMAIN scores : scores[i].key = scores[j].key => i = j
    /\ \A i \in DOMAIN scores : scores[i].score = Fused(scores[i].key)
    /\ \A i, j \in DOMAIN results : results[i] = results[j] => i = j

\* the fusion of two channel lists as searchAndCombineResults computes it
FusionOf(vectorList, ftsList, lim) ==
  Stripped(Ranked(processResults(processResults(<<>>, vectorList, 0),
                                 ftsList, 0), lim))

\* C5: when exactly one channel query throws, the result is the fusion of
\* the other channel's list with an empty list; when both throw, the result
\* is empty; the call never raises.
C5_ChannelFailure ==
  searchPc = "done" =>
    /\ outcome = "returned"
    /\ (vector.threw /\ ~fts.threw)
         => results = FusionOf(<<>>, fts.value, limit)
    /\ (~vector.threw /\ fts.threw)
         => results = FusionOf(vector.value, <<>>, limit)
    /\ (vector.threw /\ fts.threw) => results = <<>>

\* the vector query threw and the full-text rows were returned all the same
C5_Witness ==
  /\ searchPc = "done"
  /\ vector.threw
  /\ ~fts.threw
  /\ Len(fts.value) = 2
  /\ Len(results) = 2

\* C6: a search on a table without rows returns an empty sequence and does
\* not raise.
C6_EmptyTable ==
  (searchPc = "done" /\ vector.saw = <<>> /\ fts.saw = <<>>)
    => (results = <<>> /\ outcome = "returned")

\* a search on the empty table whose full-text query threw
C6_Witness ==
  /\ searchPc = "done"
  /\ table = <<>>
  /\ vector.saw = <<>>
  /\ fts.saw = <<>>
  /\ fts.threw
  /\ ~vector.threw

\* the call agrees with the kept one in table, query, limit and channel lists
SameInputs ==
  /\ kept.valid
  /\ kept.query = query
  /\ kept.limit = limit
  /\ kept.sawVector = vector.saw
  /\ kept.sawFts = fts.saw
  /\ kept.vectorResults = vector.value
  /\ kept.ftsSearchResults = fts.value

\* C7: for a fixed table and query, with channel queries that answer the
\* same for the same (table, query, limit), two calls return the same
\* sequence, whatever searches ran in between.
C7_RepeatedSearch ==
  (searchPc = "done" /\ SameInputs) => results = kept.results

\* a second call with the inputs of a kept call, its channels completing
\* full-text first, the two keys having equal score
C7_Witness ==
  /\ searchPc = "done"
  /\ SameInputs
  /\ vector.value = << TablePair[1] >>
  /\ fts.value = << TablePair[2] >>
  /\ Len(results) = 2
  /\ completion = << "fts", "vector" >>

\* C8: both queries are started before either has completed, fusion starts
\* only after both have completed, and the returned order is that of the
\* vector list accumulated before the full-text list, whichever completed
\* first.
C8_CompletionOrder ==
  /\ (vector.state = "settled" \/ fts.state = "settled")
       => (vector.state # "idle" /\ fts.state # "idle")
  /\ (vector.state # "settled" \/ fts.state # "settled")
       => (scores = <<>> /\ results = <<>>)
  /\ searchPc = "done"
       => results = FusionOf(vector.value, fts.value, limit)

\* the full-text query completed first and its key ties with the vector key
C8_Witness ==
  /\ searchPc = "done"
  /\ completion = << "fts", "vector" >>
  /\ vector.value = << TableABC[3] >>
  /\ fts.value = << TableABC[1] >>
  /\ results = << [title |-> Str("c"), content |-> Str("z")],
                  [title |-> Str("a"), content |-> Str("x")] >>

\* the last pass has returned and a pass before it had returned as well
TwoPasses == prevPass.valid /\ ix[1].pc = "done"

\* the delete-all succeeded and no listing, detail fetch or add failed
Flawless(pass) == pass.cleared /\ pass.failures = 0

ReturnedClean(p) == ix[p].pc = "done" /\ ~ix[p].ret.hasError

CountLines(report, kind) ==
  Cardinality({ i \in DOMAIN report : report[i].kind = kind })

HasLine(report, line) == \E i \in DOMAIN report : report[i] = line

\* the fetches of the pass have all settled and the chunks have been built
Built(p) == ix[p].pc \in { "adding", "done" } /\ ix[p].listed

\* the positions of the fetched records that have a title
TitledPositions(p) ==
  { i \in DOMAIN ix[p].details : ix[p].details[i].title # <<>> }

\* the n-th position, in list order, whose record has a title
NthTitled(p, n) ==
  CHOOSE j \in TitledPositions(p) :
    Cardinality({ i \in TitledPositions(p) : i <= j }) = n

\* C11: when the store lists no title, or no fetched record has a title, the
\* pass returns chunks = 0 and a report that ends with 'No valid notes found
\* to index.', sets no error field, does not raise and does not call add.
C11_NoValidNotes ==
  (Built(1) /\ TitledPositions(1) = {}) =>
    /\ ix[1].pc = "done"
    /\ ix[1].ret.returned
    /\ ix[1].ret.chunks = 0
    /\ ~ix[1].ret.hasError
    /\ ix[1].report # <<>>
    /\ ix[1].report[Len(ix[1].report)] = Line("novalid", <<>>)
    /\ ix[1].addCalls = 0

\* two titles were listed and neither detail fetch gave a titled record
C11_Witness ==
  /\ ix[1].pc = "done"
  /\ ix[1].listed
  /\ Len(ix[1].allNotes) = 2
  /\ TitledPositions(1) = {}
  /\ ix[1].ret.chunks = 0

\* C12: when the delete-all fails, the pass appends one warning and goes on:
\* the old rows stay in the table, the notes are still listed and fetched,
\* and unless the listing or the add throws the pass returns without an error
\* field, the new rows standing behind the old ones.
C12_ClearFailure ==
  (ix[1].pc \notin { "idle", "clearing" } /\ ~ix[1].cleared) =>
    /\ CountLines(ix[1].report, "clear") = 1
    /\ Len(table) >= Len(ix[1].tableAtStart)
    /\ SubSeq(table, 1, Len(ix[1].tableAtStart)) = ix[1].tableAtStart
    /\ (ix[1].pc = "done" /\ ix[1].thrown = "none") =>
         /\ ix[1].listed
         /\ ~ix[1].ret.hasError
         /\ ix[1].addCalls = 1 => table = ix[1].tableAtStart \o ix[1].chunks

\* a pass whose delete-all failed left its row behind the row found
C12_Witness ==
  /\ ix[1].pc = "done"
  /\ ~ix[1].cleared
  /\ ~ix[1].ret.hasError
  /\ Len(ix[1].tableAtStart) = 1
  /\ Len(ix[1].chunks) = 1
  /\ Len(table) = 2

\* C13: a detail fetch that threw stands as a record without title, has its
\* line in the report and gives no row, while every record fetched with a
\* title gives a row of the same pass.
C13_FetchFailure ==
  Built(1) =>
    /\ \A i \in DOMAIN ix[1].details :
         ix[1].details[i].threw =>
           /\ ix[1].details[i].title = <<>>
           /\ HasLine(ix[1].report, Line("fetch", ix[1].allNotes[i]))
    /\ CountLines(ix[1].report, "fetch")
         = Cardinality({ i \in DOMAIN ix[1].details : ix[1].details[i].threw })
    /\ ix[1].addCalls = 1 =>
         /\ Len(ix[1].chunks) = Cardinality(TitledPositions(1))
         /\ \A n \in DOMAIN ix[1].chunks :
              ix[1].chunks[n].title = ix[1].details[NthTitled(1, n)].title
    /\ (ix[1].pc = "done" /\ ix[1].thrown = "none" /\ ix[1].cleared)
         => table = ix[1].chunks

\* the fetch of the first title threw and the second note was indexed
C13_Witness ==
  /\ ix[1].pc = "done"
  /\ Len(ix[1].details) = 2
  /\ ix[1].details[1].threw
  /\ ix[1].details[2].title = Str("b")
  /\ table = << Row("0", Str("b"), Str("y")) >>

\* C14: a note whose normalization throws is indexed with its unnormalized
\* content and has a line naming it in the report; the other notes are
\* indexed with their normalized content.
C14_NormalizeFailure ==
  (Built(1) /\ ix[1].addCalls = 1) =>
    /\ Len(ix[1].chunks) = Cardinality(TitledPositions(1))
    /\ \A n \in DOMAIN ix[1].chunks :
         LET j == NthTitled(1, n)
             raw == ix[1].details[j].content
         IN /\ ix[1].chunks[n].title = ix[1].details[j].title
            /\ j \in ix[1].failing =>
                 /\ ix[1].chunks[n].content = raw
                 /\ HasLine(ix[1].report,
                            Line("convert", ix[1].details[j].title))
            /\ j \notin ix[1].failing =>
                 ix[1].chunks[n].content = SelectSeq(raw, IsText)
    /\ CountLines(ix[1].report, "convert") = Cardinality(ix[1].failing)

\* the first note kept its markup, the second one was indexed as usual
C14_Witness ==
  /\ ix[1].pc = "done"
  /\ ix[1].failing = { 1 }
  /\ table = << Row("0", Str("a"), <<"<p>", "x">>),
                Row("1", Str("b"), Str("y")) >>

\* C15: the pass never raises: when the listing or the add throws it returns
\* with the error field set, chunks = 0 and 'Error during indexing' as the
\* last line of the report.
C15_NeverRaises ==
  ix[1].pc = "done" =>
    /\ ix[1].ret.returned
    /\ ix[1].thrown # "none" =>
         /\ ix[1].ret.hasError
         /\ ix[1].ret.chunks = 0
         /\ ix[1].report # <<>>
         /\ ix[1].report[Len(ix[1].report)] = Line("indexing", <<>>)

\* the add threw after two chunks had been built
C15_Witness ==
  /\ ix[1].pc = "done"
  /\ ix[1].thrown = "add"
  /\ Len(ix[1].chunks) = 2
  /\ ix[1].ret.hasError

\* the decimal numerals
Decimal == << "0", "1", "2", "3", "4", "5", "6", "7", "8", "9" >>

\* C16: the rows passed to add carry the ids "0", "1", ..., "n-1" in the
\* order of the title list among the records that have a title, whatever
\* the order in which the detail fetches completed.
C16_SequentialIds ==
  (Built(1) /\ ix[1].addCalls = 1) =>
    /\ Len(ix[1].chunks) = Cardinality(TitledPositions(1))
    /\ \A n \in DOMAIN ix[1].chunks :
         /\ ix[1].chunks[n].id = Decimal[n]
         /\ ix[1].chunks[n].title = ix[1].allNotes[NthTitled(1, n)]

\* the second fetch completed first and the ids follow the title list
C16_Witness ==
  /\ ix[1].pc = "adding"
  /\ ix[1].fetchOrder = << 2, 1 >>
  /\ ix[1].allNotes = << Str("a"), Str("b") >>
  /\ Len(ix[1].chunks) = 2
  /\ ix[1].chunks[1].title = Str("a")
  /\ ix[1].chunks[2].title = Str("b")

\* C17: over any sequence or interleaving of createNotesTable calls on the
\* notes table the full-text index is created at most once, and a call that
\* finds content_idx among the listed indices creates nothing.
C17_IndexCreatedOnce ==
  /\ creations <= 1
  /\ \A c \in Callers : "content_idx" \in req[c].seen => ~req[c].created

\* C18: a request whose arguments fail validation ends in an error raised by
\* the handler, and a request whose tool throws for any other reason ends in
\* a returned text.
C18_ErrorContract ==
  \A c \in Callers :
    req[c].pc = "done" =>
      /\ req[c].cause = "validation" => req[c].kind = "raised"
      /\ req[c].cause = "tool" => req[c].kind = "text"

\* C19: after a createNote call that returned true the folder "MCP Notes"
\* exists and holds a note named as the title given, and no call makes a
\* second folder of that name.
C19_NoteInMcpFolder ==
  /\ (cn.pc = "done" /\ cn.result = "success") =>
       /\ folders >= 1
       /\ cn.title \in mcpNotes
  /\ folders <= 1
  /\ madeFolders <= 1

\* the folder was made by the first call and the second call found it; its
\* title carries a backslash
C19_Witness ==
  /\ cn.pc = "done"
  /\ cn.result = "success"
  /\ cn.title = << "\\", "a" >>
  /\ madeFolders = 1
  /\ folders = 1
  /\ mcpNotes = { << "a" >>, << "\\", "a" >> }

\* C20: after a pass that returned without error on a store whose only note
\* is titled T, a search whose two channels each return the row of the table
\* returns a sequence that is not empty and whose first element has title T.
C20_IndexThenSearch ==
  ( /\ ReturnedClean(1)
    /\ Len(store) = 1
    /\ Len(table) = 1
    /\ searchPc = "done"
    /\ vector.value = table
    /\ fts.value = table )
  => /\ results # <<>>
     /\ results[1].title = store[1].title

\* the steps a pass can take from one position to the next
StepOrder ==
  { << "idle", "clearing" >>, << "done", "clearing" >>,
    << "clearing", "listing" >>,
    << "listing", "fetching" >>, << "listing", "done" >>,
    << "fetching", "adding" >>, << "fetching", "done" >>,
    << "adding", "done" >> }

\* what holds of a pass at every moment: the title list is there only after
\* the clear was attempted, add was called at most once and only after every
\* fetch completed, rows are added only by that call, and a finished pass
\* has returned a report
OrderedPass ==
  /\ ix[1].listed =>
       /\ ix[1].pc \in { "fetching", "adding", "done" }
       /\ ix[1].cleared \/ CountLines(ix[1].report, "clear") = 1
  /\ ix[1].pc \in { "idle", "clearing", "listing" } =>
       /\ ix[1].details = <<>>
       /\ ix[1].fetchOrder = <<>>
  /\ ix[1].addCalls <= 1
  /\ ix[1].addCalls = 1 =>
       /\ ix[1].listed
       /\ Len(ix[1].fetchOrder) = Len(ix[1].allNotes)
       /\ \A i \in DOMAIN ix[1].details : ix[1].details[i].state = "settled"
  /\ ix[1].addCalls = 0 =>
       table \in { <<>>, ix[1].tableAtStart }
  /\ ix[1].pc = "done" => ix[1].ret.returned

\* C21: every pass takes its steps in the order clear, list, fetch,
\* normalize, add, report: the clear is attempted before the titles are
\* listed, add is called at most once and only after every detail fetch of
\* the pass has completed, and the pass ends by returning a report.
C21_FixedOrder ==
  /\ []OrderedPass
  /\ [][ix[1].pc' # ix[1].pc => << ix[1].pc, ix[1].pc' >> \in StepOrder]_vars

\* a pass that cleared, listed two titles, fetched both, added and returned
C21_Witness ==
  /\ ix[1].pc = "done"
  /\ ix[1].cleared
  /\ Len(ix[1].fetchOrder) = 2
  /\ ix[1].addCalls = 1
  /\ Len(table) = 2

\* what a channel that answered has read is the table as it was before the
\* pass or as the pass left it
SawWholeTable(channel) ==
  (channel.state = "settled" /\ ~channel.threw) =>
    channel.saw \in { ix[1].tableAtStart, table }

\* C22: a search that overlaps a pass reads either all the rows the table
\* held before the pass or all the rows it holds after it, never the
\* cleared table in between.
C22_SearchSeesWholeTable ==
  ReturnedClean(1) => SawWholeTable(vector) /\ SawWholeTable(fts)

\* C26: once two overlapping passes over an unchanged store have both
\* returned, the table holds every surviving note once: its row count is the
\* chunks value either pass reported.
C26_OverlappingPasses ==
  ( /\ \A p \in Passes : ReturnedClean(p) /\ Flawless(ix[p])
    /\ ix[1].ret.chunks = ix[2].ret.chunks )
  => Len(table) = ix[1].ret.chunks

\* C27: a pass that returned with the error field set has left the table
\* with the rows it held when the pass started.
C27_ErrorKeepsTable ==
  (ix[1].pc = "done" /\ ix[1].ret.hasError) => table = ix[1].tableAtStart

\* the rows the two channels of the call have returned
ChannelRows ==
  { vector.value[i] : i \in DOMAIN vector.value }
    \cup { fts.value[i] : i \in DOMAIN fts.value }

\* the (title, content) pair of a row
PairOf(row) == [title |-> row.title, content |-> row.content]

\* C23: the element returned for a row of a channel is the row's own title
\* and content: splitting the key built from them gives them back, also
\* when one of them holds "::".
C23_KeyRoundTrip ==
  (searchPc = "done" /\ outcome = "returned") =>
    \A i \in DOMAIN results :
      \A row \in ChannelRows :
        Key(row) = ranked[i].key => results[i] = PairOf(row)

\* C24: rows whose (title, content) pairs differ are never accumulated under
\* one key: the score map has an entry for every distinct pair of the lists.
C24_OneEntryPerPair ==
  (searchPc = "done" /\ outcome = "returned") =>
    /\ \A r1, r2 \in ChannelRows :
         PairOf(r1) # PairOf(r2) => Key(r1) # Key(r2)
    /\ Len(scores) = Cardinality({ PairOf(row) : row \in ChannelRows })

\* C25: in the semantic-search handler a search_notes request that arrives
\* before any index_notes request has run is answered with the text that
\* asks for the notes to be indexed first.
C25_IndexFirst ==
  \A c \in Callers :
    ( /\ build = "semantic"
      /\ req[c].pc = "done"
      /\ req[c].name = "search_notes"
      /\ req[c].fresh
      /\ req[c].kind = "text"
      /\ req[c].cause = "none" )
    => req[c].text = "indexFirst"

\* the number of lines of a report that say the fetch of one title threw
FetchLines(report, title) ==
  Cardinality({ n \in DOMAIN report : report[n] = Line("fetch", title) })

\* C29: whatever the order in which the detail fetches complete, the report
\* returned holds one line per fetch that threw, none lost and none twice.
C29_OneLinePerThrow ==
  (ix[1].pc = "done" /\ ix[1].listed) =>
    /\ \A i \in DOMAIN ix[1].allNotes :
         FetchLines(ix[1].report, ix[1].allNotes[i])
           = Cardinality({ j \in DOMAIN ix[1].details :
                             /\ ix[1].allNotes[j] = ix[1].allNotes[i]
                             /\ ix[1].details[j].threw })
    /\ \A n \in DOMAIN ix[1].report :
         ix[1].report[n].kind = "fetch" =>
           \E i \in DOMAIN ix[1].allNotes :
             ix[1].report[n].about = ix[1].allNotes[i]

\* both fetches threw, the second before the first, and both lines are there
C29_Witness ==
  /\ ix[1].pc = "done"
  /\ ix[1].ret.returned
  /\ ix[1].fetchOrder = << 2, 1 >>
  /\ ix[1].details[1].threw
  /\ ix[1].details[2].threw
  /\ SelectSeq(ix[1].report, LAMBDA line : line.kind = "fetch")
       = << Line("fetch", Str("b")), Line("fetch", Str("a")) >>

\* the first note of the store that carries the title
FirstWithTitle(title) ==
  store[CHOOSE m \in DOMAIN store :
          /\ store[m].title = title
          /\ \A o \in DOMAIN store : store[o].title = title => m <= o]

\* C30: with several notes of one title in the store a pass adds one row per
\* listed title, every row of that title being a copy of the first note of
\* the title, so the contents of the other notes of the title are not
\* indexed, and chunks is the number of titles fetched with a titled record.
C30_SameTitle ==
  (Built(1) /\ ix[1].addCalls = 1) =>
    /\ Len(ix[1].chunks) = Cardinality(TitledPositions(1))
    /\ \A n \in DOMAIN ix[1].chunks :
         LET first == FirstWithTitle(ix[1].allNotes[NthTitled(1, n)])
         IN /\ ix[1].chunks[n].title = first.title
            /\ ix[1].chunks[n].content
                 \in { first.body, SelectSeq(first.body, IsText) }
    /\ (ix[1].pc = "done" /\ ~ix[1].ret.hasError) =>
         ix[1].ret.chunks = Cardinality(TitledPositions(1))

\* two notes titled "a": both rows carry the content of the first one
C30_Witness ==
  /\ ix[1].pc = "done"
  /\ store = StoreSameTitle
  /\ ix[1].ret.chunks = 2
  /\ table = << Row("0", Str("a"), Str("x")), Row("1", Str("a"), Str("x")) >>

\* the keys of the call that both channels returned
InBoth(key) == key \in KeysOf(vector.value) /\ key \in KeysOf(fts.value)

\* no key stands twice in the list
NoRepeatedKey(list) ==
  \A i, j \in DOMAIN list : Key(list[i]) = Key(list[j]) => i = j

\* C28: with the default limit of 20 and lists without repeated keys, every
\* key that both channels returned stands before every key that only one
\* channel returned.
C28_BothBeforeOne ==
  ( /\ searchPc = "done"
    /\ limit = DefaultLimit
    /\ NoRepeatedKey(vector.value)
    /\ NoRepeatedKey(fts.value) )
  => /\ \A i, j \in DOMAIN scores :
          (InBoth(scores[i].key) /\ ~InBoth(scores[j].key)) =>
            /\ scores[i].score.num * scores[j].score.den
                 > scores[j].score.num * scores[i].score.den
            /\ (\E m \in DOMAIN ranked : ranked[m].key = scores[j].key)
                 => (\E n \in DOMAIN ranked : ranked[n].key = scores[i].key)
     /\ \A i, j \in DOMAIN ranked :
          (InBoth(ranked[j].key) /\ ~InBoth(ranked[i].key)) => j < i

\* the row that is last of both lists of 20 stands first, before the rows
\* that one channel alone ranked first
C28_Witness ==
  /\ searchPc = "done"
  /\ limit = DefaultLimit
  /\ Len(vector.value) = DefaultLimit
  /\ Len(fts.value) = DefaultLimit
  /\ vector.value[DefaultLimit] = fts.value[DefaultLimit]
  /\ ~InBoth(Key(vector.value[1]))
  /\ ~InBoth(Key(fts.value[1]))
  /\ ranked[1].key = Key(vector.value[DefaultLimit])
  /\ ranked[2].key = Key(vector.value[1])
  /\ ranked[3].key = Key(fts.value[1])
  /\ Len(results) = DefaultLimit

====
